---- MODULE Spec2Model ----
(***************************************************************************)
(* The messaging gateway of EllowDigital/MSG-APP: POST /send behind an     *)
(* express-rate-limit limiter, validated, dispatched to the Twilio SDK     *)
(* (client.messages.create / client.calls.create) and answered from the    *)
(* SDK's result or error.                                                  *)
(*                                                                         *)
(* The repository holds four versions of server.js; the model carries all  *)
(* of them and `version` says which one is running:                        *)
(*   Basic     src/server.js 143-250        no limiter, no E.164 check     *)
(*   Limited   src/unnamed/part_000         limiter, E.164 check           *)
(*   Media     src/server.js 1-141          + imageUrl, trust proxy        *)
(*   Advanced  src/unnamed/part_001         + callType/audioUrl, Cloudinary*)
(*                                                                         *)
(* JavaScript values.  A string is a sequence of chunks (a recipient is    *)
(* written one character per chunk, so that the E.164 pattern can be       *)
(* matched; a literal of the source is one chunk).  A field of the request *)
(* body, of a payload or of a response is an option: Absent (undefined) or *)
(* Some(value).                                                            *)
(***************************************************************************)
EXTENDS Integers, Sequences, FiniteSets, TLC

Absent == <<>>
Some(x) == <<x>>
Val(f) == f[1]
Str(s) == <<s>>
EmptyString == <<>>

\* !f is false: the field is there and is not the empty string.
Truthy(f) == f # Absent /\ Val(f) # EmptyString

\* f === 'literal'
Is(f, literal) == f = Some(Str(literal))

\* s.startsWith(p)
StartsWith(s, p) == Len(s) >= Len(p) /\ SubSeq(s, 1, Len(p)) = p

(***************************************************************************)
(* The versions and what each of them has.                                 *)
(***************************************************************************)
Basic == "Basic"
Limited == "Limited"
Media == "Media"
Advanced == "Advanced"
Versions == {Basic, Limited, Media, Advanced}

\* app.post('/send', limiter, ...) or app.use('/send', apiLimiter)
HasLimiter(v) == v \in {Limited, Media, Advanced}
\* the handler tests the recipient against e164Regex
HasE164(v) == v \in {Limited, Media, Advanced}
\* the handler destructures imageUrl from the body
ReadsImageUrl(v) == v \in {Media, Advanced}
\* the handler destructures callType and audioUrl from the body
ReadsCallType(v) == v = Advanced

(***************************************************************************)
(* Configuration read from the environment.                                *)
(***************************************************************************)
twilioSmsNumber == Str("TWILIO_SMS_NUMBER")
twilioWhatsAppSender == Str("TWILIO_WHATSAPP_SENDER")
\* A JSON value of a body that is no string, the number 42: it is truthy and has
\* no startsWith method.
NumberValue == <<"typeof number", "42">>
IsString(x) == x # NumberValue
WhatsAppPrefix == Str("whatsapp:")
CloudinaryPrefix == Str("https://res.cloudinary.com")

(***************************************************************************)
(* const e164Regex = /^\+[1-9]\d{1,14}$/                                   *)
(***************************************************************************)
Digits == {"0", "1", "2", "3", "4", "5", "6", "7", "8", "9"}
MinMoreDigits == 1
MaxMoreDigits == 14

\* Mutant: the pattern without its upper bound, /^\+[1-9]\d{1,}$/.
e164RegexUnbounded(s) ==
    /\ Len(s) >= 2 + MinMoreDigits
    /\ s[1] = "+"
    /\ s[2] \in Digits \ {"0"}
    /\ \A i \in 3..Len(s) : s[i] \in Digits

e164Regex(s) ==
    /\ Len(s) >= 2 + MinMoreDigits
    /\ Len(s) <= 2 + MaxMoreDigits
    /\ s[1] = "+"
    /\ s[2] \in Digits \ {"0"}
    /\ \A i \in 3..Len(s) : s[i] \in Digits

(***************************************************************************)
(* What the handler's synchronous part ends with: a reply (res.status(..)  *)
(* .json(..) and return) or one call of the provider SDK that is awaited.  *)
(* A response is {status, success, sid, error}; a payload is the object    *)
(* handed to client.messages.create or client.calls.create.                *)
(***************************************************************************)
NoPayload == [to |-> Absent, from |-> Absent, body |-> Absent,
              mediaUrl |-> Absent, twiml |-> Absent]

Response(status, success, sid, error) ==
    [status |-> status, success |-> success, sid |-> sid, error |-> error]

Reply(status, error) ==
    [kind |-> "reply", response |-> Response(status, FALSE, Absent, Some(error)),
     op |-> "none", payload |-> NoPayload]

Invoke(op, payload) ==
    [kind |-> "invoke", response |-> Response(0, FALSE, Absent, Absent),
     op |-> op, payload |-> payload]

\* The handler throws outside its try block: it answers nothing and calls nothing.
Thrown(name) ==
    [kind |-> "throw", response |-> Response(0, FALSE, Absent, Some(Str(name))),
     op |-> "none", payload |-> NoPayload]

MessagesCreate == "client.messages.create"
CallsCreate == "client.calls.create"
BadRequest == 400
InternalError == 500
Ok == 200

(***************************************************************************)
(* The texts of the validation errors, as the versions write them.         *)
(***************************************************************************)
MissingFieldsBasic == Str("Missing required fields: channel, recipient, message")
MissingFieldsLimited == Str("Missing required fields: channel, recipient, or message.")
MissingFields == Str("Missing required fields: channel or recipient.")
ContentRequiredMedia == Str("A message or an image URL is required.")
ContentRequired == Str("A message or an image URL is required for SMS/WhatsApp.")
TtsMessageRequired == Str("Message is required for text-to-speech calls.")
AudioUrlRequired == Str("Valid Cloudinary Audio URL is required for audio file calls.")
ImageWithCall == Str("Cannot send an image with a voice call.")
InvalidChannel == Str("Invalid channel specified.")
InvalidChannelLimited == Str("Invalid channel specified. Must be sms, whatsapp, or call.")
E164Hint == Str(". Must be in E.164 format (e.g., +919876543210).")
InvalidPhoneNumber == Str("Invalid phone number: ")
InvalidPhoneNumberFormat == Str("Invalid phone number format: ")

\* `Invalid phone number: ${recipient}. Must be in E.164 format ...`
InvalidRecipient(lead, recipient) == lead \o Val(recipient) \o E164Hint

(***************************************************************************)
(* TwiML: new twilio.twiml.VoiceResponse(), .say / .play / .hangup, and    *)
(* .toString().                                                            *)
(***************************************************************************)
Say(voice, text) == [verb |-> "Say", voice |-> Some(voice), arg |-> text]
Play(url) == [verb |-> "Play", voice |-> Absent, arg |-> url]
Hangup == [verb |-> "Hangup", voice |-> Absent, arg |-> Absent]
TwimlToString(verbs) == [root |-> "Response", verbs |-> verbs]

(***************************************************************************)
(* The 'from' address: switch (channel) { case 'sms': case 'call': ...     *)
(* case 'whatsapp': ... }.  The same in every version; Absent is the       *)
(* switch falling through (fromAddress stays undefined).                   *)
(***************************************************************************)
FromAddress(channel) ==
    IF Is(channel, "sms") \/ Is(channel, "call") THEN Some(twilioSmsNumber)
    ELSE IF Is(channel, "whatsapp") THEN Some(WhatsAppPrefix \o twilioWhatsAppSender)
    ELSE Absent

\* Mutant: the whatsapp recipient is left without its prefix.
ToAddressPlain(channel, recipient) == recipient

\* Advanced: let toAddress = recipient; case 'whatsapp': toAddress = `whatsapp:${recipient}`
ToAddress(channel, recipient) ==
    IF Is(channel, "whatsapp") THEN Some(WhatsAppPrefix \o Val(recipient))
    ELSE recipient

\* The SDK operation the second switch (channel) of a handler ends in.
ProviderOp(channel) ==
    IF Is(channel, "sms") \/ Is(channel, "whatsapp") THEN MessagesCreate
    ELSE CallsCreate

(***************************************************************************)
(* Basic and Limited: sendSms, sendWhatsApp, makeVoiceCall(from, to, body) *)
(***************************************************************************)
sendSmsText(from, to, body) ==
    [NoPayload EXCEPT !.body = body, !.from = from, !.to = to]

sendWhatsAppText(from, to, body) ==
    [NoPayload EXCEPT !.from = from, !.body = body,
                      !.to = Some(WhatsAppPrefix \o Val(to))]

makeVoiceCall(voice, from, to, textToSay) ==
    [NoPayload EXCEPT !.twiml = Some(TwimlToString(<<Say(voice, textToSay), Hangup>>)),
                      !.to = to, !.from = from]

\* Media: sendSms / sendWhatsApp(from, to, body, imageUrl)
sendSms(from, to, body, imageUrl) ==
    [NoPayload EXCEPT !.from = from, !.to = to,
                      !.body = IF Truthy(body) THEN body ELSE Absent,
                      !.mediaUrl = IF Truthy(imageUrl) THEN Some(<<Val(imageUrl)>>) ELSE Absent]

sendWhatsApp(from, to, body, imageUrl) ==
    [NoPayload EXCEPT !.from = from, !.to = Some(WhatsAppPrefix \o Val(to)),
                      !.body = IF Truthy(body) THEN body ELSE Absent,
                      !.mediaUrl = IF Truthy(imageUrl) THEN Some(<<Val(imageUrl)>>) ELSE Absent]

\* The second switch of Basic, Limited and Media once the 'from' address is set.
DispatchText(voice, b) ==
    IF Is(b.channel, "sms")
    THEN Invoke(MessagesCreate, sendSmsText(FromAddress(b.channel), b.recipient, b.message))
    ELSE IF Is(b.channel, "whatsapp")
    THEN Invoke(MessagesCreate, sendWhatsAppText(FromAddress(b.channel), b.recipient, b.message))
    ELSE Invoke(CallsCreate, makeVoiceCall(voice, FromAddress(b.channel), b.recipient, b.message))

(***************************************************************************)
(* The synchronous part of app.post('/send') of each version, from the     *)
(* destructuring of req.body to the first await or return.                 *)
(***************************************************************************)
SendBasic(b) ==
    IF ~Truthy(b.channel) \/ ~Truthy(b.recipient) \/ ~Truthy(b.message)
    THEN Reply(BadRequest, MissingFieldsBasic)
    ELSE IF FromAddress(b.channel) = Absent
    THEN Reply(BadRequest, InvalidChannel)
    ELSE DispatchText("alice", b)

SendLimited(b) ==
    IF ~Truthy(b.channel) \/ ~Truthy(b.recipient) \/ ~Truthy(b.message)
    THEN Reply(BadRequest, MissingFieldsLimited)
    ELSE IF ~e164Regex(Val(b.recipient))
    THEN Reply(BadRequest, InvalidRecipient(InvalidPhoneNumberFormat, b.recipient))
    ELSE IF FromAddress(b.channel) = Absent
    THEN Reply(BadRequest, InvalidChannelLimited)
    ELSE DispatchText("Polly.Aditi", b)

\* Mutant: case 'call' goes to makeVoiceCall without looking at imageUrl.
SendMediaNoImageCheck(b) ==
    IF ~Truthy(b.channel) \/ ~Truthy(b.recipient)
    THEN Reply(BadRequest, MissingFields)
    ELSE IF ~Truthy(b.message) /\ ~Truthy(b.imageUrl)
    THEN Reply(BadRequest, ContentRequiredMedia)
    ELSE IF ~e164Regex(Val(b.recipient))
    THEN Reply(BadRequest, InvalidRecipient(InvalidPhoneNumberFormat, b.recipient))
    ELSE IF FromAddress(b.channel) = Absent
    THEN Reply(BadRequest, InvalidChannel)
    ELSE IF Is(b.channel, "sms")
    THEN Invoke(MessagesCreate,
                sendSms(FromAddress(b.channel), b.recipient, b.message, b.imageUrl))
    ELSE IF Is(b.channel, "whatsapp")
    THEN Invoke(MessagesCreate,
                sendWhatsApp(FromAddress(b.channel), b.recipient, b.message, b.imageUrl))
    ELSE Invoke(CallsCreate,
                makeVoiceCall("Polly.Aditi", FromAddress(b.channel), b.recipient, b.message))

SendMedia(b) ==
    IF ~Truthy(b.channel) \/ ~Truthy(b.recipient)
    THEN Reply(BadRequest, MissingFields)
    ELSE IF ~Truthy(b.message) /\ ~Truthy(b.imageUrl)
    THEN Reply(BadRequest, ContentRequiredMedia)
    ELSE IF ~e164Regex(Val(b.recipient))
    THEN Reply(BadRequest, InvalidRecipient(InvalidPhoneNumberFormat, b.recipient))
    ELSE IF FromAddress(b.channel) = Absent
    THEN Reply(BadRequest, InvalidChannel)
    ELSE IF Is(b.channel, "sms")
    THEN Invoke(MessagesCreate,
                sendSms(FromAddress(b.channel), b.recipient, b.message, b.imageUrl))
    ELSE IF Is(b.channel, "whatsapp")
    THEN Invoke(MessagesCreate,
                sendWhatsApp(FromAddress(b.channel), b.recipient, b.message, b.imageUrl))
    ELSE IF Truthy(b.imageUrl)
    THEN Reply(BadRequest, ImageWithCall)
    ELSE Invoke(CallsCreate,
                makeVoiceCall("Polly.Aditi", FromAddress(b.channel), b.recipient, b.message))

\* Mutant: sms and whatsapp take a message or an image but not both.
ContentCheckExactlyOne(b) ==
    IF Is(b.channel, "call")
    THEN IF Is(b.callType, "tts") /\ ~Truthy(b.message)
         THEN Some(TtsMessageRequired)
         ELSE IF Is(b.callType, "audio")
                 /\ (~Truthy(b.audioUrl) \/ ~StartsWith(Val(b.audioUrl), CloudinaryPrefix))
         THEN Some(AudioUrlRequired)
         ELSE IF Truthy(b.imageUrl)
         THEN Some(ImageWithCall)
         ELSE Absent
    ELSE IF Is(b.channel, "sms") \/ Is(b.channel, "whatsapp")
    THEN IF Truthy(b.message) = Truthy(b.imageUrl)
         THEN Some(ContentRequired)
         ELSE Absent
    ELSE Some(InvalidChannel)

\* Mutant: the audio call's URL is not asked for.
ContentCheckNoAudioRule(b) ==
    IF Is(b.channel, "call")
    THEN IF Is(b.callType, "tts") /\ ~Truthy(b.message)
         THEN Some(TtsMessageRequired)
         ELSE IF Truthy(b.imageUrl)
         THEN Some(ImageWithCall)
         ELSE Absent
    ELSE IF Is(b.channel, "sms") \/ Is(b.channel, "whatsapp")
    THEN IF ~Truthy(b.message) /\ ~Truthy(b.imageUrl)
         THEN Some(ContentRequired)
         ELSE Absent
    ELSE Some(InvalidChannel)

\* Advanced, "Validate based on channel and type": the error, or Absent.
ContentCheck(b) ==
    IF Is(b.channel, "call")
    THEN IF Is(b.callType, "tts") /\ ~Truthy(b.message)
         THEN Some(TtsMessageRequired)
         ELSE IF Is(b.callType, "audio")
                 /\ (~Truthy(b.audioUrl) \/ ~StartsWith(Val(b.audioUrl), CloudinaryPrefix))
         THEN Some(AudioUrlRequired)
         ELSE IF Truthy(b.imageUrl)
         THEN Some(ImageWithCall)
         ELSE Absent
    ELSE IF Is(b.channel, "sms") \/ Is(b.channel, "whatsapp")
    THEN IF ~Truthy(b.message) /\ ~Truthy(b.imageUrl)
         THEN Some(ContentRequired)
         ELSE Absent
    ELSE Some(InvalidChannel)

\* Advanced: the validation comes to audioUrl.startsWith(...) or to
\* imageUrl.startsWith(...) with a value that is no string: TypeError.
ContentCheckThrows(b) ==
    IF Is(b.channel, "call")
    THEN /\ ~(Is(b.callType, "tts") /\ ~Truthy(b.message))
         /\ Is(b.callType, "audio")
         /\ Truthy(b.audioUrl) /\ ~IsString(Val(b.audioUrl))
    ELSE IF Is(b.channel, "sms") \/ Is(b.channel, "whatsapp")
    THEN /\ ~(~Truthy(b.message) /\ ~Truthy(b.imageUrl))
         /\ Truthy(b.imageUrl) /\ ~IsString(Val(b.imageUrl))
    ELSE FALSE

\* Advanced, case 'sms' / case 'whatsapp': messageOptions with body and mediaUrl.
MessageOptions(b) ==
    [NoPayload EXCEPT
        !.to = ToAddress(b.channel, b.recipient),
        !.from = FromAddress(b.channel),
        !.body = IF Truthy(b.message) THEN b.message ELSE Absent,
        !.mediaUrl = IF Truthy(b.imageUrl) /\ StartsWith(Val(b.imageUrl), CloudinaryPrefix)
                     THEN Some(<<Val(b.imageUrl)>>) ELSE Absent]

\* Advanced, case 'call': messageOptions with the TwiML of the call type.
CallOptions(b) ==
    [NoPayload EXCEPT
        !.to = ToAddress(b.channel, b.recipient),
        !.from = FromAddress(b.channel),
        !.twiml = Some(TwimlToString(
                    <<IF Is(b.callType, "audio") THEN Play(b.audioUrl)
                      ELSE Say("Polly.Aditi", b.message),
                      Hangup>>))]

\* Mutant: the recipient's format is tested before the channel and its content.
SendAdvancedRecipientFirst(b) ==
    IF ~Truthy(b.channel) \/ ~Truthy(b.recipient)
    THEN Reply(BadRequest, MissingFields)
    ELSE IF ~e164Regex(Val(b.recipient))
    THEN Reply(BadRequest, InvalidRecipient(InvalidPhoneNumber, b.recipient))
    ELSE IF ContentCheck(b) # Absent
    THEN Reply(BadRequest, Val(ContentCheck(b)))
    ELSE IF ProviderOp(b.channel) = MessagesCreate
    THEN Invoke(MessagesCreate, MessageOptions(b))
    ELSE Invoke(CallsCreate, CallOptions(b))

SendAdvanced(b) ==
    IF ~Truthy(b.channel) \/ ~Truthy(b.recipient)
    THEN Reply(BadRequest, MissingFields)
    ELSE IF ContentCheckThrows(b)
    THEN Thrown("TypeError")
    ELSE IF ContentCheck(b) # Absent
    THEN Reply(BadRequest, Val(ContentCheck(b)))
    ELSE IF ~e164Regex(Val(b.recipient))
    THEN Reply(BadRequest, InvalidRecipient(InvalidPhoneNumber, b.recipient))
    ELSE IF ProviderOp(b.channel) = MessagesCreate
    THEN Invoke(MessagesCreate, MessageOptions(b))
    ELSE Invoke(CallsCreate, CallOptions(b))

Handler(v, b) ==
    CASE v = Basic -> SendBasic(b)
      [] v = Limited -> SendLimited(b)
      [] v = Media -> SendMedia(b)
      [] v = Advanced -> SendAdvanced(b)

(***************************************************************************)
(* The end of the handler: the response after the awaited call returned,   *)
(* and the catch block's response after it threw.  A provider error is     *)
(* {status, code, message}, status and code optional.                      *)
(***************************************************************************)
Succeeded(result) == Response(Ok, TRUE, Some(result.sid), Absent)

\* Mutant: the provider's status is dropped.
StatusAlways500(e) == InternalError

\* error.status || 500
StatusOr500(e) ==
    IF e.status # Absent /\ Val(e.status) # 0 THEN Val(e.status) ELSE InternalError

TwilioError(e) == Str("Twilio Error: ") \o e.message

\* (error.code ? ` (Code: ${error.code})` : '')
CodeSuffix(e) ==
    IF e.code # Absent /\ Val(e.code) # 0
    THEN <<" (Code: ", ToString(Val(e.code)), ")">>
    ELSE EmptyString

Catch(v, e) ==
    CASE v = Basic -> Response(InternalError, FALSE, Absent, Some(e.message))
      [] v \in {Limited, Media} -> Response(StatusOr500(e), FALSE, Absent, Some(TwilioError(e)))
      [] v = Advanced ->
            Response(StatusOr500(e), FALSE, Absent, Some(TwilioError(e) \o CodeSuffix(e)))

(***************************************************************************)
(* The rate limiter: rateLimit({windowMs: 15 * 60 * 1000, max: 100, ...}), *)
(* express-rate-limit with its memory store.  The store counts the hits of *)
(* each key (req.ip) in the current window; a request whose hit brings the *)
(* count over max is answered by the limiter (429 and `message`) and never *)
(* reaches the route; the counts are dropped when the window ends.  429 is *)
(* the library's default statusCode, which the options leave as it is.     *)
(***************************************************************************)
max == 100
TooManyRequests == 429
LimiterMessage == Str("Too many requests from this IP, please try again after 15 minutes.")

\* Mutant: every client is counted under one key (the proxy's address).
KeyOfProxy(c) == "c1"

\* keyGenerator: the client address
Key(c) == c

LimiterAdmits(totalHits) == totalHits <= max

(***************************************************************************)
(* The request bodies: express.json() has parsed them, and each field is a *)
(* string or is not there.  The recipients are every string over a small   *)
(* alphabet up to MaxRecipientLen and some longer ones around the edges of *)
(* the pattern (3 and 16 characters match, 2 and 17 do not).               *)
(***************************************************************************)
MaxRecipientLen == 2
RecipientAlphabet == {"+", "0", "1"}

ShortRecipients == UNION {[1..k -> RecipientAlphabet] : k \in 0..MaxRecipientLen}

ExampleRecipients ==
    { <<"1", "2", "3", "4", "5">>,
      <<"+", "0", "1", "2", "3">>,
      <<"+", "1", "2", "3", "4", "5", "6", "7", "8", "9", "0", "1", "2", "3", "4", "5", "6">>,
      <<"+", "1", "2", "3", "4", "5", "6", "7", "8", "9", "0", "1", "2", "3", "4", "5">>,
      <<"+", "1", "4", "1", "5", "5", "5", "5", "1", "2", "3", "4">>,
      <<"+", "9", "1">>,
      <<"+", "1", "4", "a">>,
      <<"+", "1", "4", "1", "5", " ", "5", "5", "5">> }

Recipients == {Absent} \cup {Some(r) : r \in ShortRecipients \cup ExampleRecipients}
Channels == {Absent, Some(Str("sms")), Some(Str("whatsapp")), Some(Str("call")), Some(Str("fax"))}
Messages == {Absent, Some(EmptyString), Some(Str("hello"))}
ImageUrls == {Absent, Some(CloudinaryPrefix \o Str("/demo/image/upload/img.png")),
              Some(Str("https://example/img.png")), Some(NumberValue)}
CallTypes == {Absent, Some(Str("tts")), Some(Str("audio")), Some(Str("video"))}
AudioUrls == {Absent, Some(CloudinaryPrefix \o Str("/demo/video/upload/a.mp3")),
              Some(Str("https://example/a.mp3")), Some(NumberValue)}

Bodies ==
    [channel : Channels, recipient : Recipients, message : Messages,
     imageUrl : ImageUrls, callType : CallTypes, audioUrl : AudioUrls]

Body(channel, recipient, message, imageUrl, callType, audioUrl) ==
    [channel |-> channel, recipient |-> recipient, message |-> message,
     imageUrl |-> imageUrl, callType |-> callType, audioUrl |-> audioUrl]

NoBody == Body(Absent, Absent, Absent, Absent, Absent, Absent)

\* The few bodies the limiter is exercised with: one that is sent, one that is refused.
LimitBodies ==
    { Body(Some(Str("sms")), Some(<<"+", "9", "1">>), Some(Str("hello")), Absent, Absent, Absent),
      Body(Some(Str("sms")), Absent, Some(Str("hello")), Absent, Absent, Absent) }

(***************************************************************************)
(* The provider: what an awaited SDK call returns or throws.               *)
(***************************************************************************)
ProviderResults == {[sid |-> Str("SM0a1b")], [sid |-> Str("CA2c3d")]}

ProviderErrors ==
    { [status |-> Absent, code |-> Absent, message |-> Str("connect ETIMEDOUT")],
      [status |-> Some(400), code |-> Some(21211), message |-> Str("Invalid 'To' Phone Number")],
      [status |-> Some(503), code |-> Absent, message |-> Str("Service Unavailable")] }

(***************************************************************************)
(* State.                                                                  *)
(*   version  the version of server.js that runs                           *)
(*   hits     the limiter's store: hits of each key in the current window  *)
(*   reached  requests of each client that entered the /send handler in    *)
(*            the current window                                           *)
(*   arrivals requests of each client that came to a limited route in the  *)
(*            current window, whatever the limiter did with them           *)
(*   slots    the requests in flight: where each is (pc), its client and   *)
(*            body, the SDK calls made for it, what the awaited call       *)
(*            returned or threw, and its response.  pc is idle, received   *)
(*            (in the handler), dispatched (awaiting the SDK) or one of    *)
(*            the ends: limited (answered by the limiter), rejected (a     *)
(*            handler's return res.status(400)), succeeded, failed (the    *)
(*            catch block), errored (Express answered for a handler that   *)
(*            threw); unanswered is a request left without a response.     *)
(*            replies counts the responses written for it                  *)
(*   env      the environment variables that hold a non-empty value        *)
(*   proc     where the process is: starting (the module runs from the     *)
(*            top), twilioReady (past the Twilio check), storageReady      *)
(*            (past the Cloudinary check), listening (app.listen was       *)
(*            called) or exited (process.exit(1))                          *)
(***************************************************************************)
VARIABLES version, hits, reached, arrivals, slots, env, proc

vars == <<version, hits, reached, arrivals, slots, env, proc>>

TwilioVariables ==
    {"TWILIO_ACCOUNT_SID", "TWILIO_AUTH_TOKEN", "TWILIO_SMS_NUMBER",
     "TWILIO_WHATSAPP_SENDER"}
CloudinaryVariables ==
    {"CLOUDINARY_CLOUD_NAME", "CLOUDINARY_API_KEY", "CLOUDINARY_API_SECRET"}
EnvironmentVariables == TwilioVariables \cup CloudinaryVariables \cup {"FRONTEND_URL"}

Clients == {"c1", "c2"}
Slots == {1, 2}

NoResponse == Response(0, FALSE, Absent, Absent)

IdleSlot ==
    [pc |-> "idle", client |-> "none", body |-> NoBody, calls |-> <<>>,
     settled |-> Absent, response |-> NoResponse, replies |-> 0]

Ends == {"limited", "rejected", "succeeded", "failed", "errored"}

InitIn(vs) ==
    /\ version \in vs
    /\ hits = [c \in Clients |-> 0]
    /\ reached = [c \in Clients |-> 0]
    /\ arrivals = [c \in Clients |-> 0]
    /\ slots = [s \in Slots |-> IdleSlot]
    /\ env = EnvironmentVariables
    /\ proc = "listening"

\* The server is up, with every variable of its .env file set.
Init == InitIn(Versions)

(***************************************************************************)
(* A POST /send of client c with body b arrives: the limiter, where the    *)
(* version has one, counts it and lets it through to the handler or        *)
(* answers it.                                                             *)
(***************************************************************************)
Arrive(s, c, b) ==
    /\ proc = "listening"
    /\ slots[s].pc = "idle"
    /\ LET counted == HasLimiter(version)
           total == hits[Key(c)] + 1
       IN  /\ hits' = IF counted THEN [hits EXCEPT ![Key(c)] = total] ELSE hits
           /\ IF counted /\ ~LimiterAdmits(total)
              THEN /\ slots' = [slots EXCEPT ![s] =
                          [IdleSlot EXCEPT !.pc = "limited", !.client = c, !.body = b,
                              !.response = Response(TooManyRequests, FALSE, Absent,
                                                    Some(LimiterMessage)),
                              !.replies = 1]]
                   /\ reached' = reached
              ELSE /\ slots' = [slots EXCEPT ![s] =
                          [IdleSlot EXCEPT !.pc = "received", !.client = c, !.body = b]]
                   /\ reached' = [reached EXCEPT ![c] = @ + 1]
           /\ arrivals' = IF counted THEN [arrivals EXCEPT ![c] = @ + 1] ELSE arrivals
    /\ UNCHANGED <<version, env, proc>>

(***************************************************************************)
(* The handler runs from the top to its first return, await or throw.      *)
(* A throw outside the try block rejects the promise of the async handler,  *)
(* which nothing in server.js catches.  What comes of it is up to the      *)
(* Express and Node the server is installed with:                          *)
(*   unanswered  Express 4 drops the promise and Node only warns: the      *)
(*               request gets no response                                  *)
(*   errored     Express 5 passes the error to its default error handler,  *)
(*               which answers 500 with an HTML page                       *)
(*   crashed     Express 4 drops the promise and Node ends the process on  *)
(*               the unhandled rejection: every request in flight is cut   *)
(***************************************************************************)
UncaughtOutcomes == {"unanswered", "errored", "crashed"}

Uncaught(s, outcome) ==
    CASE outcome = "unanswered" ->
            /\ slots' = [slots EXCEPT ![s] = [@ EXCEPT !.pc = "unanswered"]]
            /\ proc' = proc
      [] outcome = "errored" ->
            /\ slots' = [slots EXCEPT ![s] =
                    [@ EXCEPT !.pc = "errored",
                              !.response = Response(InternalError, FALSE, Absent, Absent),
                              !.replies = @ + 1]]
            /\ proc' = proc
      [] outcome = "crashed" ->
            /\ slots' = [t \in Slots |->
                    IF t = s \/ slots[t].pc \in {"received", "dispatched"}
                    THEN [slots[t] EXCEPT !.pc = "unanswered"]
                    ELSE slots[t]]
            /\ proc' = "exited"

Send(s) ==
    /\ slots[s].pc = "received"
    /\ LET out == Handler(version, slots[s].body)
       IN  IF out.kind = "throw"
           THEN \E outcome \in UncaughtOutcomes : Uncaught(s, outcome)
           ELSE /\ slots' = [slots EXCEPT ![s] =
                     IF out.kind = "reply"
                     THEN [@ EXCEPT !.pc = "rejected", !.response = out.response,
                                    !.replies = @ + 1]
                     ELSE [@ EXCEPT !.pc = "dispatched",
                                    !.calls = Append(@, [op |-> out.op,
                                                         payload |-> out.payload])]]
                /\ proc' = proc
    /\ UNCHANGED <<version, hits, reached, arrivals, env>>

\* The awaited SDK call returns: res.status(200).json({success: true, sid: result.sid})
ProviderReturns(s, result) ==
    /\ slots[s].pc = "dispatched"
    /\ slots' = [slots EXCEPT ![s] = [@ EXCEPT !.pc = "succeeded",
                                               !.settled = Some(result),
                                               !.response = Succeeded(result),
                                               !.replies = @ + 1]]
    /\ UNCHANGED <<version, hits, reached, arrivals, env, proc>>

\* Mutant: the catch block tries the SDK call once more before it answers.
ProviderThrowsRetry(s, e) ==
    /\ slots[s].pc = "dispatched"
    /\ slots' = [slots EXCEPT ![s] = [@ EXCEPT !.pc = "failed",
                                               !.calls = Append(@, @[1]),
                                               !.settled = Some(e),
                                               !.response = Catch(version, e),
                                               !.replies = @ + 1]]
    /\ UNCHANGED <<version, hits, reached, arrivals, env, proc>>

\* The awaited SDK call throws: the catch block answers.
ProviderThrows(s, e) ==
    /\ slots[s].pc = "dispatched"
    /\ slots' = [slots EXCEPT ![s] = [@ EXCEPT !.pc = "failed",
                                               !.settled = Some(e),
                                               !.response = Catch(version, e),
                                               !.replies = @ + 1]]
    /\ UNCHANGED <<version, hits, reached, arrivals, env, proc>>

\* The response has been sent; the request is over.
Close(s) ==
    /\ slots[s].pc \in Ends
    /\ slots' = [slots EXCEPT ![s] = IdleSlot]
    /\ UNCHANGED <<version, hits, reached, arrivals, env, proc>>

\* GET /api/sign-upload of client c: Advanced puts the same limiter on '/api/'.
SignUpload(c) ==
    /\ version = Advanced
    /\ proc = "listening"
    /\ hits' = [hits EXCEPT ![Key(c)] = @ + 1]
    /\ arrivals' = [arrivals EXCEPT ![c] = @ + 1]
    /\ UNCHANGED <<version, reached, slots, env, proc>>

\* The limiter's window ends: the store starts counting again.
WindowReset ==
    /\ HasLimiter(version)
    /\ hits' = [c \in Clients |-> 0]
    /\ reached' = [c \in Clients |-> 0]
    /\ arrivals' = [c \in Clients |-> 0]
    /\ UNCHANGED <<version, slots, env, proc>>

(***************************************************************************)
(* Startup: the module runs from the top.  It reads the environment, exits *)
(* where a check finds a value missing, and calls app.listen at its end.   *)
(***************************************************************************)
\* Mutant: the Twilio check forgets the WhatsApp sender.
TwilioCredentialsSetNoSender(e) ==
    /\ "TWILIO_ACCOUNT_SID" \in e
    /\ "TWILIO_AUTH_TOKEN" \in e
    /\ "TWILIO_SMS_NUMBER" \in e

\* !(!accountSid || !authToken || !twilioSmsNumber || !twilioWhatsAppSender)
TwilioCredentialsSet(e) ==
    /\ "TWILIO_ACCOUNT_SID" \in e
    /\ "TWILIO_AUTH_TOKEN" \in e
    /\ "TWILIO_SMS_NUMBER" \in e
    /\ "TWILIO_WHATSAPP_SENDER" \in e

\* !(!cloudinaryCloudName || !cloudinaryApiKey || !cloudinaryApiSecret)
CloudinaryCredentialsSet(e) ==
    /\ "CLOUDINARY_CLOUD_NAME" \in e
    /\ "CLOUDINARY_API_KEY" \in e
    /\ "CLOUDINARY_API_SECRET" \in e

\* Only Advanced reads the Cloudinary variables.
ChecksCloudinary(v) == v = Advanced

\* The Twilio check: process.exit(1) or twilio(accountSid, authToken).
CheckTwilio ==
    /\ proc = "starting"
    /\ proc' = IF TwilioCredentialsSet(env) THEN "twilioReady" ELSE "exited"
    /\ UNCHANGED <<version, hits, reached, arrivals, slots, env>>

\* The Cloudinary check: process.exit(1) or cloudinary.config(...).
CheckCloudinary ==
    /\ ChecksCloudinary(version)
    /\ proc = "twilioReady"
    /\ proc' = IF CloudinaryCredentialsSet(env) THEN "storageReady" ELSE "exited"
    /\ UNCHANGED <<version, hits, reached, arrivals, slots, env>>

\* app.listen(port, ...): the last statement of the module.
Listen ==
    /\ proc = IF ChecksCloudinary(version) THEN "storageReady" ELSE "twilioReady"
    /\ proc' = "listening"
    /\ UNCHANGED <<version, hits, reached, arrivals, slots, env>>

(***************************************************************************)
(* Spec: one client, one request at a time, every body.                    *)
(***************************************************************************)
MaxArrivals == 1

Receive ==
    /\ reached["c1"] < MaxArrivals
    /\ slots[1].pc = "idle"
    /\ \E b \in Bodies : Arrive(1, "c1", b)
Handle == Send(1)
Resolve == \E r \in ProviderResults : ProviderReturns(1, r)
Reject == \E e \in ProviderErrors : ProviderThrows(1, e)
Finish == Close(1)

Next == Receive \/ Handle \/ Resolve \/ Reject \/ Finish

Spec == Init /\ [][Next]_vars

(***************************************************************************)
(* SpecLive: Spec with what Node and the SDK see to: a request that has    *)
(* come to the handler is run by the event loop, and the promise of an SDK *)
(* call settles, by a result or by an error (a timeout at the latest).     *)
(***************************************************************************)
SpecLive == Init /\ [][Next]_vars /\ WF_vars(Handle) /\ WF_vars(Resolve \/ Reject)

(***************************************************************************)
(* SpecLimit: the versions with a limiter, two clients whose requests      *)
(* interleave, a few bodies.  Client c1 may fill its window and go over    *)
(* the limit; client c2 sends a few requests beside it.                    *)
(***************************************************************************)
OverLimit == 2
BystanderArrivals == 3
MaxSignUploads == 1

ArrivalCap(c) == IF c = "c1" THEN max + OverLimit ELSE BystanderArrivals

LimitResults == {r \in ProviderResults : r.sid = Str("SM0a1b")}
LimitErrors == {e \in ProviderErrors : e.status = Absent}

InitLimit == InitIn({v \in Versions : HasLimiter(v)})

Request ==
    \E c \in Clients :
        /\ arrivals[c] < ArrivalCap(c)
        /\ \E s \in Slots : slots[s].pc = "idle" /\ \E b \in LimitBodies : Arrive(s, c, b)

Sign ==
    \E c \in Clients :
        /\ arrivals[c] < ArrivalCap(c)
        /\ arrivals[c] >= max \/ arrivals[c] - reached[c] < MaxSignUploads
        /\ SignUpload(c)

Dispatch == \E s \in Slots : Send(s)
Return == \E s \in Slots : \E r \in LimitResults : ProviderReturns(s, r)
Throw == \E s \in Slots : \E e \in LimitErrors : ProviderThrows(s, e)
Respond == \E s \in Slots : Close(s)

NextLimit == Request \/ Sign \/ Dispatch \/ Return \/ Throw \/ Respond \/ WindowReset

SpecLimit == InitLimit /\ [][NextLimit]_vars

(***************************************************************************)
(* SpecStart: the process from its first statement, under every            *)
(* environment, and one client's requests once it listens.                 *)
(***************************************************************************)
InitStart ==
    /\ version \in Versions
    /\ hits = [c \in Clients |-> 0]
    /\ reached = [c \in Clients |-> 0]
    /\ arrivals = [c \in Clients |-> 0]
    /\ slots = [s \in Slots |-> IdleSlot]
    /\ env \in SUBSET EnvironmentVariables
    /\ proc = "starting"

Accept ==
    /\ reached["c1"] < MaxArrivals
    /\ slots[1].pc = "idle"
    /\ \E b \in LimitBodies : Arrive(1, "c1", b)

NextStart ==
    CheckTwilio \/ CheckCloudinary \/ Listen \/ Accept \/ Handle \/ Resolve \/ Reject \/ Finish

SpecStart == InitStart /\ [][NextStart]_vars

(***************************************************************************)
(* What the claims speak of.                                               *)
(***************************************************************************)
KnownChannel(b) == Is(b.channel, "sms") \/ Is(b.channel, "whatsapp") \/ Is(b.channel, "call")
TextChannel(b) == Is(b.channel, "sms") \/ Is(b.channel, "whatsapp")

\* The handler has run for the request in slot s, to its return or its await.
PastValidation(s) == slots[s].pc \in {"dispatched", "rejected", "succeeded", "failed"}
\* The handler has handed the request in slot s to the provider.
Sent(s) == slots[s].pc \in {"dispatched", "succeeded", "failed"}

\* ^\+[1-9]\d{1,14}$, read off the claim: a plus sign, a digit from 1 to 9, then
\* between one and fourteen digits, and nothing else.
MatchesE164(s) ==
    \E n \in 1..14 :
        /\ Len(s) = n + 2
        /\ s[1] = "+"
        /\ s[2] \in {"1", "2", "3", "4", "5", "6", "7", "8", "9"}
        /\ \A i \in 3..(n + 2) : s[i] \in {"0", "1", "2", "3", "4", "5", "6", "7", "8", "9"}

RecipientMatches(b) == Truthy(b.recipient) /\ MatchesE164(Val(b.recipient))

\* A payload's 'to' without the whatsapp prefix.
StripWhatsApp(to) ==
    IF StartsWith(to, WhatsAppPrefix) THEN SubSeq(to, Len(WhatsAppPrefix) + 1, Len(to)) ELSE to

ErrorClass(error) ==
    CASE error \in {MissingFieldsBasic, MissingFieldsLimited, MissingFields} -> "MissingField"
      [] error \in {ContentRequiredMedia, ContentRequired, TtsMessageRequired,
                    AudioUrlRequired} -> "MissingContent"
      [] error = ImageWithCall -> "ImageWithCall"
      [] error \in {InvalidChannel, InvalidChannelLimited} -> "InvalidChannel"
      [] StartsWith(error, InvalidPhoneNumber)
         \/ StartsWith(error, InvalidPhoneNumberFormat) -> "InvalidRecipientFormat"
      [] OTHER -> "Other"

\* The content a channel needs is missing.  Media asks for a message or an image
\* whatever the channel; Advanced asks per channel and call type.
ContentMissing(v, b) ==
    IF v = Media THEN ~Truthy(b.message) /\ ~Truthy(b.imageUrl)
    ELSE \/ TextChannel(b) /\ ~Truthy(b.message) /\ ~Truthy(b.imageUrl)
         \/ Is(b.channel, "call") /\ Is(b.callType, "tts") /\ ~Truthy(b.message)
         \/ /\ Is(b.channel, "call") /\ Is(b.callType, "audio")
            /\ \/ ~Truthy(b.audioUrl)
               \/ Val(b.audioUrl)[1] # "https://res.cloudinary.com"

RuleFails(rule, v, b) ==
    CASE rule = "MissingField" -> ~Truthy(b.channel) \/ ~Truthy(b.recipient)
      [] rule = "MissingContent" -> ContentMissing(v, b)
      [] rule = "ImageWithCall" -> Is(b.channel, "call") /\ Truthy(b.imageUrl)
      [] rule = "InvalidRecipientFormat" -> ~RecipientMatches(b)
      [] rule = "InvalidChannel" -> ~KnownChannel(b)

\* The order each version applies the rules in.
RuleOrder(v) ==
    IF v = Media
    THEN <<"MissingField", "MissingContent", "InvalidRecipientFormat", "InvalidChannel",
           "ImageWithCall">>
    ELSE <<"MissingField", "MissingContent", "ImageWithCall", "InvalidChannel",
           "InvalidRecipientFormat">>

FailingRules(v, b) == {i \in 1..Len(RuleOrder(v)) : RuleFails(RuleOrder(v)[i], v, b)}

FirstFailing(v, b) ==
    RuleOrder(v)[CHOOSE i \in FailingRules(v, b) : \A j \in FailingRules(v, b) : i <= j]

\* C2 as claimed, in the instance the claim itself gives: with channel and recipient
\* there and the content rule met (a message, no image), a request with an unknown
\* channel and a malformed recipient is answered with the recipient-format error
\* (rule 3 before rule 4).
C2_RecipientBeforeChannel ==
    \A s \in Slots :
        LET r == slots[s] IN
        ( /\ version \in {Media, Advanced}
          /\ PastValidation(s)
          /\ Truthy(r.body.channel) /\ ~KnownChannel(r.body)
          /\ Truthy(r.body.recipient) /\ ~RecipientMatches(r.body)
          /\ Truthy(r.body.message) /\ ~Truthy(r.body.imageUrl) )
        => /\ r.pc = "rejected"
           /\ ErrorClass(Val(r.response.error)) = "InvalidRecipientFormat"

\* C2 amended.  The first failing rule decides the error, in the order: Media
\* (src/server.js 55-112) fields present, content, recipient format, channel, and
\* last no image with a call; Advanced (src/unnamed/part_001) fields present,
\* content, no image with a call, channel, and last recipient format.  A request
\* is handed to the provider exactly when no rule fails.
C2_FirstFailingRuleDecides ==
    \A s \in Slots :
        LET r == slots[s] IN
        (version \in {Media, Advanced} /\ PastValidation(s)) =>
            IF FailingRules(version, r.body) = {}
            THEN Sent(s)
            ELSE /\ r.pc = "rejected"
                 /\ r.response.status = 400
                 /\ ErrorClass(Val(r.response.error)) = FirstFailing(version, r.body)

\* Advanced answers an unknown channel with a malformed recipient: invalid channel.
C2_Witness ==
    \E s \in Slots :
        /\ version = Advanced
        /\ slots[s].pc = "rejected"
        /\ Is(slots[s].body.channel, "fax")
        /\ slots[s].body.recipient = Some(<<"1", "2", "3", "4", "5">>)
        /\ Truthy(slots[s].body.message)
        /\ slots[s].response.error = Some(Str("Invalid channel specified."))

C5_CallContentRequired ==
    \A s \in Slots :
        LET r == slots[s]
            b == slots[s].body
        IN  ( /\ version = Advanced /\ PastValidation(s)
              /\ Is(b.channel, "call")
              /\ \/ Is(b.callType, "tts") /\ ~Truthy(b.message)
                 \/ Is(b.callType, "audio") /\ ~Truthy(b.audioUrl) ) =>
                /\ r.pc = "rejected"
                /\ r.response.status = 400
                /\ r.calls = <<>>

\* A tts call to a well-formed recipient with message "" is refused for its message.
C5_Witness ==
    \E s \in Slots :
        /\ version = Advanced
        /\ slots[s].pc = "rejected"
        /\ Is(slots[s].body.channel, "call")
        /\ Is(slots[s].body.callType, "tts")
        /\ slots[s].body.message = Some(EmptyString)
        /\ RecipientMatches(slots[s].body)
        /\ slots[s].response.error = Some(Str("Message is required for text-to-speech calls."))

C7_FromAndTo ==
    \A s \in Slots :
        LET b == slots[s].body IN
        \A i \in 1..Len(slots[s].calls) :
            LET p == slots[s].calls[i].payload IN
            IF Is(b.channel, "whatsapp")
            THEN /\ p.from = Some(<<"whatsapp:">> \o twilioWhatsAppSender)
                 /\ p.to = Some(<<"whatsapp:">> \o Val(b.recipient))
            ELSE /\ p.from = Some(twilioSmsNumber)
                 /\ p.to = b.recipient

\* whatsapp to +14155551234 with message hello: prefixed sender and recipient, body hello.
C7_Witness ==
    \E s \in Slots :
        /\ version = Advanced
        /\ Sent(s)
        /\ Is(slots[s].body.channel, "whatsapp")
        /\ slots[s].body.message = Some(Str("hello"))
        /\ slots[s].calls[1].payload.to =
              Some(<<"whatsapp:", "+", "1", "4", "1", "5", "5", "5", "5", "1", "2", "3", "4">>)
        /\ slots[s].calls[1].payload.from = Some(<<"whatsapp:", "TWILIO_WHATSAPP_SENDER">>)
        /\ slots[s].calls[1].payload.body = Some(Str("hello"))

(***************************************************************************)
(* C8.  As claimed, for the versions that read imageUrl: the payload of a  *)
(* validated sms or whatsapp request holds a text body exactly when the    *)
(* message is there, and a media list exactly when the imageUrl is there,  *)
(* the list being that one URL.                                            *)
(***************************************************************************)
C8_BodyAndMedia ==
    \A s \in Slots :
        LET b == slots[s].body IN
        (ReadsImageUrl(version) /\ TextChannel(b)) =>
            \A i \in 1..Len(slots[s].calls) :
                LET p == slots[s].calls[i].payload IN
                /\ p.body = (IF Truthy(b.message) THEN b.message ELSE Absent)
                /\ p.mediaUrl = (IF Truthy(b.imageUrl) THEN Some(<<Val(b.imageUrl)>>) ELSE Absent)

Contains(s, t) == \E i \in 1..(Len(s) - Len(t) + 1) : SubSeq(s, i, i + Len(t) - 1) = t

LimitedSlotsUntouched ==
    \A s \in Slots :
        slots[s].pc = "limited" =>
            /\ slots[s].calls = <<>>
            /\ slots[s].response.status = 429
            /\ slots[s].response.error =
                  Some(Str("Too many requests from this IP, please try again after 15 minutes."))

AdmissionByOwnCount ==
    \A s \in Slots :
        (slots[s].pc = "idle" /\ slots'[s].pc # "idle") =>
            LET c == slots'[s].client IN
            /\ IF arrivals[c] >= 100
               THEN slots'[s].pc = "limited" /\ reached'[c] = reached[c]
               ELSE slots'[s].pc = "received" /\ reached'[c] = reached[c] + 1
            /\ \A d \in Clients \ {c} : reached'[d] = reached[d] /\ arrivals'[d] = arrivals[d]

LimitedStaysUnhandled ==
    \A s \in Slots : slots[s].pc = "limited" => slots'[s].pc \in {"limited", "idle"}

C10_AtMostMaxPerClientAndWindow ==
    /\ [](\A c \in Clients : reached[c] <= 100)
    /\ []LimitedSlotsUntouched
    /\ [][AdmissionByOwnCount /\ LimitedStaysUnhandled]_vars

\* Client c1 has had its 100 requests handled and its next one is answered by the
\* limiter, while a request of client c2 is with the provider.
C10_Witness ==
    /\ reached["c1"] = 100
    /\ arrivals["c1"] > 100
    /\ \E s, t \in Slots :
        /\ slots[s].pc = "limited" /\ slots[s].client = "c1"
        /\ slots[t].pc = "dispatched" /\ slots[t].client = "c2"

(***************************************************************************)
(* Startup and configuration.                                              *)
(***************************************************************************)
HasAll(names) == names \subseteq env
NothingHandled ==
    /\ \A s \in Slots : slots[s] = IdleSlot
    /\ \A c \in Clients : reached[c] = 0 /\ arrivals[c] = 0
BeforeListening == proc \in {"starting", "twilioReady", "storageReady", "exited"}
\* What each version cannot start without.
RequiredVariables(v) ==
    IF v = Advanced THEN TwilioVariables \cup CloudinaryVariables ELSE TwilioVariables

\* C11 as stated: the process listens only with the four Twilio values set,
\* without one of them it exits before it listens and handles no request, and
\* with the four set nothing else that is missing, the Cloudinary values
\* included, makes it exit.
C11_StorageCredentialsOptional ==
    /\ proc = "listening" => HasAll(TwilioVariables)
    /\ ~HasAll(TwilioVariables) => BeforeListening /\ NothingHandled
    /\ HasAll(TwilioVariables) => proc # "exited"

\* C11, amended: the process listens only with every value its version
\* requires set, the four Twilio values and in Advanced the three Cloudinary
\* values too; with one of them missing it never listens, handles no request,
\* and either has exited or is about to run the check that exits; the
\* environment does not change and a process that has exited stays so; with all of them set it never exits, whatever else is
\* missing.
C11_ListensOnlyWhenConfigured ==
    /\ [](/\ proc = "listening" => HasAll(RequiredVariables(version))
          /\ ~HasAll(RequiredVariables(version)) =>
                /\ BeforeListening /\ NothingHandled
                /\ proc = "exited" \/ ENABLED (CheckTwilio \/ CheckCloudinary)
                /\ ~ENABLED Listen
          /\ HasAll(RequiredVariables(version)) => proc # "exited")
    /\ [][/\ env' = env
          /\ proc = "exited" => proc' = "exited"]_vars

\* Advanced has exited with the four Twilio values set and a Cloudinary value missing.
C11_Witness ==
    /\ version = Advanced
    /\ proc = "exited"
    /\ HasAll(TwilioVariables)
    /\ "CLOUDINARY_API_SECRET" \notin env

(***************************************************************************)
(* The lifecycle of a request.                                             *)
(***************************************************************************)
\* The steps a request takes: Received, then rejected by a validation rule or
\* Validated and Dispatched (one run of the handler up to its await), then
\* Succeeded or Failed; a closed connection frees the slot.
LifecycleSteps ==
    { <<"idle", "received">>, <<"idle", "limited">>,
      <<"received", "rejected">>, <<"received", "dispatched">>,
      <<"dispatched", "succeeded">>, <<"dispatched", "failed">>,
      <<"limited", "idle">>, <<"rejected", "idle">>,
      <<"succeeded", "idle">>, <<"failed", "idle">> }

Answered(s) == slots[s].pc \in {"rejected", "succeeded", "failed"}

\* Every validation rule of the version passes for the body.
Validated(v, b) == v \in {Media, Advanced} => FailingRules(v, b) = {}

LifecycleState(s) ==
    LET r == slots[s] IN
    /\ r.pc \in {"idle", "received"} =>
            r.replies = 0 /\ r.calls = <<>> /\ r.settled = Absent
    /\ r.pc = "dispatched" =>
            /\ Validated(version, r.body)
            /\ r.replies = 0 /\ r.response = NoResponse
            /\ Len(r.calls) = 1 /\ r.settled = Absent
    /\ r.pc = "rejected" =>
            /\ r.replies = 1 /\ r.response.status = BadRequest
            /\ r.calls = <<>> /\ r.settled = Absent
            /\ version \in {Media, Advanced} => FailingRules(version, r.body) # {}
    /\ r.pc = "succeeded" =>
            /\ Validated(version, r.body)
            /\ r.replies = 1 /\ r.response.status = Ok
            /\ Len(r.calls) = 1
            /\ r.settled # Absent /\ Val(r.settled) \in ProviderResults
            /\ r.response.sid = Some(Val(r.settled).sid)
    /\ r.pc = "failed" =>
            /\ Validated(version, r.body)
            /\ r.replies = 1 /\ r.response.status # Ok
            /\ Len(r.calls) = 1
            /\ r.settled # Absent /\ Val(r.settled) \in ProviderErrors

LifecycleStep(s) ==
    /\ slots[s].pc # slots'[s].pc => <<slots[s].pc, slots'[s].pc>> \in LifecycleSteps
    /\ slots[s].pc = slots'[s].pc => slots'[s] = slots[s]
    /\ slots[s].pc # "idle" /\ slots'[s].pc # "idle" =>
            /\ slots'[s].body = slots[s].body
            /\ slots'[s].replies >= slots[s].replies
            /\ Answered(s) => slots'[s].response = slots[s].response

\* C12: a request that has come to the handler goes from Received to rejected
\* with a 400, or to Validated and Dispatched and then to Succeeded or Failed,
\* one step at a time and none twice; it is handed to the provider only with
\* every validation rule passed, answered 200 only with the provider's result
\* and answered by the catch block only with the provider's error; it has no
\* response before its end and exactly one from then on; and it does reach an
\* end.
C12_Lifecycle ==
    /\ [](\A s \in Slots : LifecycleState(s))
    /\ [][\A s \in Slots : LifecycleStep(s)]_vars
    /\ \A s \in Slots : (slots[s].pc = "received") ~> Answered(s)

(***************************************************************************)
(* The content of what is handed to the provider.                          *)
(***************************************************************************)
\* Every messages.create payload has a non-empty body or a non-empty media list.
MessagePayloadsCarryContent ==
    \A s \in Slots : \A i \in 1..Len(slots[s].calls) :
        LET c == slots[s].calls[i] IN
        c.op = MessagesCreate =>
            \/ Truthy(c.payload.body)
            \/ c.payload.mediaUrl # Absent /\ Len(Val(c.payload.mediaUrl)) >= 1

\* Every calls.create payload has a TwiML document that says a non-empty text
\* or plays an audioUrl that is there, and then hangs up.
CallPayloadsCarryContent ==
    \A s \in Slots : \A i \in 1..Len(slots[s].calls) :
        LET c == slots[s].calls[i] IN
        c.op = CallsCreate =>
            /\ c.payload.twiml # Absent
            /\ LET verbs == Val(c.payload.twiml).verbs IN
               /\ Len(verbs) = 2
               /\ verbs[1].verb \in {"Say", "Play"}
               /\ Truthy(verbs[1].arg)
               /\ verbs[2].verb = "Hangup"

\* C13: every payload handed to the provider carries content, whatever the
\* accepted request: a message payload a body or media, a call payload a
\* spoken text or a played audio before the hang-up.
C13_PayloadsCarryContent ==
    MessagePayloadsCarryContent /\ CallPayloadsCarryContent


====
